---- MODULE Spec2Model ----
(***************************************************************************)
(* AURA Cyber Threat Radar: the firewall controller, the reputation        *)
(* engine, the behavioural scorer, the triage orchestrator and the file    *)
(* integrity monitor, as state machines.                                   *)
(*                                                                         *)
(* Strings are sequences of one-character strings, so that parsing,        *)
(* prefix tests and sorting are computed and not assumed.  Scores are      *)
(* kept in hundredths (the code rounds every score to two decimals) and    *)
(* time in milliseconds.                                                   *)
(***************************************************************************)
EXTENDS Integers, Sequences, FiniteSets, TLC

VARIABLES
    os,               \* platform.system().lower(): "windows" or "linux"
    now,              \* time.time(), in milliseconds
    nticks,           \* clock advances so far
    \* ---- FirewallManager
    blocked_ips,      \* self.blocked_ips: a set of address strings
    record_file,      \* the content of blocked_ips.json
    fw_rules,         \* the platform firewall: address -> number of netsh rules
    fw_call,          \* the last block_ip / unblock_ip call and what it did
    fw_prev,          \* the address and operation of the call before it
    \* ---- ThreatIntel
    bad_entries,      \* self.bad_entries: the drop-list entries
    abuse_key,        \* whether an AbuseIPDB credential is configured
    last_abuse_fail,  \* self._last_abuse_fail
    hash_seed,        \* the process's string-hash seed (PYTHONHASHSEED)
    intel_call,       \* the last check_ip_reputation call and its result
    \* ---- BehavioralAnomalyDetector
    learning_mode,    \* self.learning_mode
    learning_start,   \* self.learning_start
    ip_activity,      \* self.ip_activity: address -> activity record
    mode_log,         \* number of "switched to MONITORING mode" log lines
    ncreated,         \* address -> activity records created for it
    ncalls,           \* address -> calculate_threat_score calls that returned
    sc,               \* per caller: position and locals inside calculate_threat_score
    \* ---- process_packet and the traffic queue
    tri,              \* the sniffer thread's position and locals inside process_packet
    traffic_data_queue,
    tri_done,         \* the last completed process_packet call
    npackets,         \* packets handed to process_packet so far
    \* ---- FileIntegrityMonitor
    fs,               \* the watched directory: raw path -> content digest / unreadable / absent
    max_files,        \* self.max_files (0 models None)
    baseline,         \* self.baseline
    baseline_file,    \* the content of integrity_baseline.json
    running,          \* self.running
    integrity_queue,  \* self.alert_queue
    drift_call,       \* the last FileIntegrityMonitor operation and its result
    drift_prev,       \* the detect_drift result before it, while nothing changed in between
    ndrift,           \* FileIntegrityMonitor operations so far
    \* ---- threads
    fwt,              \* per thread: position and locals inside block_ip / unblock_ip
    dd,               \* per thread: position and locals inside _loop / detect_drift
    scan_lock,        \* self.lock: the thread holding it, or NoThread
    poll,             \* the /integrity request in progress: position and events collected
    qlog              \* every event put on integrity_queue, and every event a poll returned

fwVars    == <<blocked_ips, record_file, fw_rules, fw_call, fw_prev>>
intelVars == <<bad_entries, abuse_key, last_abuse_fail, hash_seed, intel_call>>
scoreVars == <<learning_mode, learning_start, ip_activity, mode_log, ncreated, ncalls, sc>>
triVars   == <<tri, traffic_data_queue, tri_done, npackets>>
driftVars == <<fs, max_files, baseline, baseline_file, running, integrity_queue, drift_call,
               drift_prev, ndrift>>
concVars  == <<fwt, dd, scan_lock, poll, qlog>>
vars == <<os, now, nticks, fwVars, intelVars, scoreVars, triVars, driftVars, concVars>>

----------------------------------------------------------------------------
(* Strings *)

Digits == <<"0", "1", "2", "3", "4", "5", "6", "7", "8", "9">>

IsDigit(c) == \E i \in 1..10 : Digits[i] = c

DigitVal(c) == (CHOOSE i \in 1..10 : Digits[i] = c) - 1

\* The code point order of the characters that occur: '.' < '/' < '0'..'9' < 'x'.
CharCode(c) ==
    IF c = "." THEN 46
    ELSE IF c = "/" THEN 47
    ELSE IF IsDigit(c) THEN 48 + DigitVal(c)
    ELSE 120

\* str.__lt__: lexicographic by code point, a proper prefix first.
RECURSIVE StrLess(_, _)
StrLess(s, t) ==
    IF t = <<>> THEN FALSE
    ELSE IF s = <<>> THEN TRUE
    ELSE IF CharCode(Head(s)) # CharCode(Head(t))
         THEN CharCode(Head(s)) < CharCode(Head(t))
    ELSE StrLess(Tail(s), Tail(t))

\* str.startswith
StartsWith(s, p) == Len(p) <= Len(s) /\ SubSeq(s, 1, Len(p)) = p

\* str.split(sep): the fields between the separators (at least one field).
RECURSIVE Split(_, _)
Split(s, sep) ==
    IF \A i \in 1..Len(s) : s[i] # sep THEN <<s>>
    ELSE LET k == CHOOSE i \in 1..Len(s) :
                      s[i] = sep /\ \A j \in 1..(i - 1) : s[j] # sep
         IN  <<SubSeq(s, 1, k - 1)>> \o Split(SubSeq(s, k + 1, Len(s)), sep)

\* int(str, 10) of a string of digits
RECURSIVE DecVal(_)
DecVal(s) ==
    IF s = <<>> THEN 0
    ELSE 10 * DecVal(SubSeq(s, 1, Len(s) - 1)) + DigitVal(s[Len(s)])

\* str(n) for n >= 0
RECURSIVE Dec(_)
Dec(n) == IF n < 10 THEN <<Digits[n + 1]>> ELSE Dec(n \div 10) \o <<Digits[(n % 10) + 1]>>

\* "a.b.c.d"
Dotted(o) == Dec(o[1]) \o <<".">> \o Dec(o[2]) \o <<".">> \o Dec(o[3]) \o <<".">> \o Dec(o[4])

\* "a.b.c.d/p"
Cidr(o, p) == Dotted(o) \o <<"/">> \o Dec(p)

----------------------------------------------------------------------------
(* The ipaddress library, as the code uses it *)

\* IPv4Address._parse_octet: strictly a decimal of 1..3 digits, no leading zero, <= 255.
OctetOk(f) ==
    /\ f # <<>>
    /\ \A i \in 1..Len(f) : IsDigit(f[i])
    /\ Len(f) <= 3
    /\ (f = <<"0">> \/ f[1] # "0")
    /\ DecVal(f) <= 255

\* ipaddress.ip_address(ip): the four octets, or ValueError.
IpParses(ip) ==
    LET f == Split(ip, ".")
    IN  ip # <<>> /\ Len(f) = 4 /\ \A i \in 1..4 : OctetOk(f[i])

IpOctets(ip) ==
    LET f == Split(ip, ".")
    IN  <<DecVal(f[1]), DecVal(f[2]), DecVal(f[3]), DecVal(f[4])>>

Pow2(k) == IF k = 0 THEN 1 ELSE IF k = 1 THEN 2 ELSE IF k = 2 THEN 4
           ELSE IF k = 3 THEN 8 ELSE IF k = 4 THEN 16 ELSE IF k = 5 THEN 32
           ELSE IF k = 6 THEN 64 ELSE IF k = 7 THEN 128 ELSE 256

\* addr in IPv4Network(net/p): the first p bits agree, octet by octet.
InNetwork(o, net, p) ==
    \A i \in 1..4 :
        LET k == IF p >= 8 * i THEN 8
                 ELSE IF p <= 8 * (i - 1) THEN 0
                 ELSE p - 8 * (i - 1)
        IN  o[i] \div Pow2(8 - k) = net[i] \div Pow2(8 - k)

\* IPv4Address._constants._private_networks (iana-ipv4-special-registry)
PrivateNetworks ==
    { <<<<0, 0, 0, 0>>, 8>>, <<<<10, 0, 0, 0>>, 8>>, <<<<127, 0, 0, 0>>, 8>>,
      <<<<169, 254, 0, 0>>, 16>>, <<<<172, 16, 0, 0>>, 12>>, <<<<192, 0, 0, 0>>, 29>>,
      <<<<192, 0, 0, 170>>, 31>>, <<<<192, 0, 2, 0>>, 24>>, <<<<192, 168, 0, 0>>, 16>>,
      <<<<198, 18, 0, 0>>, 15>>, <<<<198, 51, 100, 0>>, 24>>, <<<<203, 0, 113, 0>>, 24>>,
      <<<<240, 0, 0, 0>>, 4>>, <<<<255, 255, 255, 255>>, 32>> }

\* ipaddress.ip_address(ip).is_private, for an ip that parses
IsPrivateAddr(ip) ==
    LET o == IpOctets(ip)
    IN  \E n \in PrivateNetworks : InNetwork(o, n[1], n[2])

----------------------------------------------------------------------------
(* Bounds and input sets *)

MaxFwCalls == 3      \* block_ip / unblock_ip calls in one run
MaxClock == 2        \* clock advances in one run
MaxPackets == 1      \* packets handed to process_packet in one run
MaxQueue == 2        \* events waiting in a queue before the next poll
MaxDriftOps == 3     \* FileIntegrityMonitor operations in one run

PublicAddrs == { Dotted(<<8, 8, 8, 8>>), Dotted(<<45, 1, 2, 3>>), Dotted(<<13, 1, 1, 1>>) }

ReservedAddrs ==
    { Dotted(<<10, 0, 0, 1>>), Dotted(<<127, 0, 0, 1>>), Dotted(<<169, 254, 1, 1>>),
      Dotted(<<203, 0, 113, 5>>) }

\* Strings ip_address() rejects: not an address, an octet over 255, a leading
\* zero, three octets.
BadAddrs ==
    { <<"x">>, Dotted(<<256, 1, 1, 1>>), <<"0">> \o Dotted(<<1, 2, 3, 4>>),
      <<"1", ".", "2", ".", "3">> }

Addrs == PublicAddrs \cup ReservedAddrs \cup BadAddrs

\* The parse of each modelled address, computed once.
ParsesTable == [a \in Addrs |-> IpParses(a)]

PrivateTable == [a \in Addrs |-> IpParses(a) /\ IsPrivateAddr(a)]

----------------------------------------------------------------------------
(* FirewallManager *)

NoFile      == [kind |-> "missing", data |-> <<>>]
CorruptFile == [kind |-> "corrupt", data |-> <<>>]
JsonFile(d) == [kind |-> "json", data |-> d]

\* sorted(list(s)) of a set of strings
RECURSIVE SortedList(_)
SortedList(S) ==
    IF S = {} THEN <<>>
    ELSE LET m == CHOOSE x \in S : \A y \in S \ {x} : StrLess(x, y)
         IN  <<m>> \o SortedList(S \ {m})

\* _load_blocked_ips: set(json.load(f)); a missing or unreadable file leaves set().
LoadBlockedIps(file) ==
    IF file.kind = "json" THEN { file.data[i] : i \in 1..Len(file.data) } ELSE {}

\* _save_blocked_ips: open(..., "w") truncates, json.dump writes the sorted list;
\* any exception is caught and printed.
SaveOutcomes == {"ok", "open_fails", "write_fails"}

SaveBlockedIps(S, file, so) ==
    IF so = "ok" THEN JsonFile(SortedList(S))
    ELSE IF so = "open_fails" THEN file
    ELSE CorruptFile

\* _is_private_ip had it, like GeoLocator's, taken a ValueError for "not private"
IsPrivateIpLax(ip) == IF ParsesTable[ip] THEN PrivateTable[ip] ELSE FALSE

\* FirewallManager._is_private_ip: ValueError counts as private.
IsPrivateIp(ip) == IF ParsesTable[ip] THEN PrivateTable[ip] ELSE TRUE

\* subprocess.run(["netsh", ...], check=False): the rule is added, netsh refuses
\* (a non-zero exit is ignored), or run itself raises, at the first or second call.
EnforceOutcomes == {"ok", "denied", "raise_first", "raise_second"}

FwCall(op, ip, enforced, persisted) ==
    [op |-> op, ip |-> ip, enforced |-> enforced, persisted |-> persisted,
     pre_blocked |-> blocked_ips, pre_file |-> record_file, seq |-> fw_call.seq + 1]

\* an early return of block_ip / unblock_ip
FwReturn(op, ip) ==
    /\ fw_call' = FwCall(op, ip, 0, FALSE)
    /\ fw_prev' = [op |-> fw_call.op, ip |-> fw_call.ip]
    /\ UNCHANGED <<blocked_ips, record_file, fw_rules>>

\* the set is changed and saved, had the save come before the change
FwRecordSaveFirst(op, ip, enforced, S, sos) ==
    /\ blocked_ips' = S
    /\ \E so \in sos : record_file' = SaveBlockedIps(blocked_ips, record_file, so)
    /\ fw_call' = FwCall(op, ip, enforced, TRUE)

\* the set is changed and saved
FwRecord(op, ip, enforced, S, sos) ==
    /\ blocked_ips' = S
    /\ \E so \in sos : record_file' = SaveBlockedIps(S, record_file, so)
    /\ fw_call' = FwCall(op, ip, enforced, TRUE)

\* the except branch: the set and the record stay as they were
FwFailed(op, ip, enforced) ==
    /\ fw_call' = FwCall(op, ip, enforced, FALSE)
    /\ UNCHANGED <<blocked_ips, record_file>>

\* block_ip(ip) past its two early returns: two netsh calls on Windows, then
\* the address is recorded; an exception skips the rest.
BlockIpTry(ip, eos, sos) ==
    /\ fw_prev' = [op |-> fw_call.op, ip |-> fw_call.ip]
    /\ IF os = "windows"
       THEN \E eo \in eos :
              /\ fw_rules' = [fw_rules EXCEPT ![ip] =
                                 @ + (IF eo = "ok" THEN 2
                                      ELSE IF eo = "raise_second" THEN 1 ELSE 0)]
              /\ IF eo = "raise_first" THEN FwFailed("block", ip, 1)
                 ELSE IF eo = "raise_second" THEN FwFailed("block", ip, 2)
                 ELSE FwRecord("block", ip, 2, blocked_ips \cup {ip}, sos)
       ELSE /\ FwRecord("block", ip, 0, blocked_ips \cup {ip}, sos)
            /\ UNCHANGED fw_rules

\* block_ip(ip)
BlockIp(ip, eos, sos) ==
    IF IsPrivateIp(ip) THEN FwReturn("block", ip)
    ELSE IF ip \in blocked_ips THEN FwReturn("block", ip)
    ELSE BlockIpTry(ip, eos, sos)

\* unblock_ip(ip): netsh delete rule removes every rule of that name.
UnblockIp(ip, eos, sos) ==
    IF ip \notin blocked_ips THEN FwReturn("unblock", ip)
    ELSE /\ fw_prev' = [op |-> fw_call.op, ip |-> fw_call.ip]
         /\ IF os = "windows"
            THEN \E eo \in eos \ {"raise_second"} :
                   /\ fw_rules' = [fw_rules EXCEPT ![ip] = IF eo = "ok" THEN 0 ELSE @]
                   /\ IF eo = "raise_first" THEN FwFailed("unblock", ip, 1)
                      ELSE FwRecord("unblock", ip, 1, blocked_ips \ {ip}, sos)
            ELSE /\ FwRecord("unblock", ip, 0, blocked_ips \ {ip}, sos)
                 /\ UNCHANGED fw_rules

\* ---- block_ip / unblock_ip called from several threads: the steps of a call
FwThreads == {1, 2}

FwtIdle == [pc |-> "idle", op |-> "none", ip |-> <<>>, snap |-> <<>>]

\* The call is entered: the early returns, then the netsh calls; an exception
\* there ends the call in the except branch.
FwtCall(t, op, ip, eos) ==
    /\ fwt[t].pc = "idle"
    /\ fw_call' = [fw_call EXCEPT !.seq = @ + 1]
    /\ LET proceeds == IF op = "block" THEN ~IsPrivateIp(ip) /\ ip \notin blocked_ips
                       ELSE ip \in blocked_ips
       IN  IF ~proceeds THEN UNCHANGED <<fwt, fw_rules>>
           ELSE IF os # "windows"
           THEN /\ fwt' = [fwt EXCEPT ![t] = [pc |-> "mutate", op |-> op, ip |-> ip,
                                              snap |-> <<>>]]
                /\ UNCHANGED fw_rules
           ELSE \E eo \in eos :
                  /\ fw_rules' = [fw_rules EXCEPT ![ip] =
                                     IF eo = "ok" THEN (IF op = "block" THEN @ + 2 ELSE 0)
                                     ELSE IF eo = "raise_second" /\ op = "block" THEN @ + 1
                                     ELSE @]
                  /\ fwt' = IF eo \in {"raise_first", "raise_second"} THEN fwt
                            ELSE [fwt EXCEPT ![t] = [pc |-> "mutate", op |-> op, ip |-> ip,
                                                     snap |-> <<>>]]
    /\ UNCHANGED <<blocked_ips, record_file, fw_prev>>

\* One step of a call in progress: the set is changed; _save_blocked_ips opens
\* the record for writing, which empties it; sorted(list(self.blocked_ips)) is
\* evaluated; the list is written and the file closed.  Two threads that have
\* the record open at once leave either one's list or a mixture of both.
FwtStep(t) ==
    \/ /\ fwt[t].pc = "mutate"
       /\ IF fwt[t].op = "block"
          THEN /\ blocked_ips' = blocked_ips \cup {fwt[t].ip}
               /\ fwt' = [fwt EXCEPT ![t].pc = "open"]
          ELSE IF fwt[t].ip \in blocked_ips
          THEN /\ blocked_ips' = blocked_ips \ {fwt[t].ip}
               /\ fwt' = [fwt EXCEPT ![t].pc = "open"]
          ELSE /\ fwt' = [fwt EXCEPT ![t] = FwtIdle]
               /\ UNCHANGED blocked_ips
       /\ UNCHANGED <<record_file, fw_rules, fw_call, fw_prev>>
    \/ /\ fwt[t].pc = "open"
       /\ record_file' = CorruptFile
       /\ fwt' = [fwt EXCEPT ![t].pc = "dump"]
       /\ UNCHANGED <<blocked_ips, fw_rules, fw_call, fw_prev>>
    \/ /\ fwt[t].pc = "dump"
       /\ fwt' = [fwt EXCEPT ![t].pc = "write", ![t].snap = SortedList(blocked_ips)]
       /\ UNCHANGED <<blocked_ips, record_file, fw_rules, fw_call, fw_prev>>
    \/ /\ fwt[t].pc = "write"
       /\ \/ record_file' = JsonFile(fwt[t].snap)
          \/ /\ \E u \in FwThreads \ {t} : fwt[u].pc \in {"dump", "write"}
             /\ record_file' = CorruptFile
       /\ fwt' = [fwt EXCEPT ![t] = FwtIdle]
       /\ UNCHANGED <<blocked_ips, fw_rules, fw_call, fw_prev>>

\* list_blocked_ips()
ListBlockedIps == SortedList(blocked_ips)

\* The record a previous run of the program may have left behind.
InitialRecordFiles ==
    { NoFile, CorruptFile, JsonFile(<<>>), JsonFile(<<Dotted(<<8, 8, 8, 8>>)>>) }

FwInit(files) ==
    /\ record_file \in files
    /\ blocked_ips = LoadBlockedIps(record_file)
    /\ fw_rules = [a \in PublicAddrs |-> 0]
    /\ fw_call = [op |-> "none", ip |-> <<>>, enforced |-> 0, persisted |-> FALSE,
                  pre_blocked |-> blocked_ips, pre_file |-> record_file, seq |-> 0]
    /\ fw_prev = [op |-> "none", ip |-> <<>>]

----------------------------------------------------------------------------
(* ThreatIntel *)

CooldownMs == 5000

\* What the AbuseIPDB request can give: a failure (non-200, timeout, malformed
\* body) or status 200 with an abuseConfidenceScore.
ApiFail == 1000
ApiOutcomes == {ApiFail, -5, 59, 60, 150}

\* ipaddress.ip_network(entry, strict=False) accepts "a.b.c.d/p" with 0 <= p <= 32
\* (the netmask notation "a.b.c.d/m.m.m.m" does not occur in the entries modelled).
NetworkParses(entry) ==
    LET f == Split(entry, "/")
    IN  /\ Len(f) = 2
        /\ IpParses(f[1])
        /\ f[2] # <<>>
        /\ \A i \in 1..Len(f[2]) : IsDigit(f[2][i])
        /\ DecVal(f[2]) <= 32

\* One pass of the loop over bad_entries: does this entry make it return 1.0?
EntryMatches(ip, entry) ==
    IF \E i \in 1..Len(entry) : entry[i] = "/"
    THEN IF NetworkParses(entry)
         THEN LET f == Split(entry, "/")
                  o == IpOctets(ip)
                  net == IpOctets(f[1])
              IN  InNetwork(o, net, DecVal(f[2]))
         ELSE StartsWith(ip, Split(entry, "/")[1])
    ELSE ip = entry

\* What _fetch_spamhaus may have loaded: CIDR blocks, an exact address, an entry
\* ip_network() rejects.
DropEntries ==
    { Cidr(<<203, 0, 113, 0>>, 24), Cidr(<<45, 1, 2, 0>>, 24), Cidr(<<10, 0, 0, 0>>, 8),
      Dotted(<<8, 8, 8, 8>>), <<"1", "3", ".", "1", "/", "1", "6">> }

\* The drop-list entries each modelled address matches, computed once.
MatchTable == [a \in Addrs |-> IF IpParses(a) THEN {e \in DropEntries : EntryMatches(a, e)}
                                ELSE {}]

\* hash(ip) % 10: Python's string hash is seeded per process, and % gives 0..9.
RECURSIVE CharSum(_)
CharSum(s) == IF s = <<>> THEN 0 ELSE CharCode(Head(s)) + CharSum(Tail(s))

CharSumTable == [a \in Addrs |-> CharSum(a)]

HashMod10(ip) == (CharSumTable[ip] + hash_seed) % 10

HighPrefixes == { <<"4", "5", ".">>, <<"1", "8", "5", ".">>, <<"1", "0", "3", ".">>,
                  <<"1", "9", "8", ".">>, <<"1", "5", "6", ".">> }

MedPrefixes == { <<"1", "3", ".">>, <<"2", "0", ".">>, <<"3", "4", ".">>, <<"5", "2", ".">>,
                 <<"1", "0", "4", ".">>, <<"4", "0", ".">>, <<"2", "3", ".">> }

\* The prefix heuristic, in hundredths: round(0.75 + 0.2*h/10, 2),
\* round(0.2 + 0.3*h/10, 2), round(0.02*(h/10), 2).
TierTable ==
    [a \in Addrs |-> IF \E p \in HighPrefixes : StartsWith(a, p) THEN "high"
                      ELSE IF \E p \in MedPrefixes : StartsWith(a, p) THEN "med"
                      ELSE "low"]

Heuristic(ip) ==
    LET h == HashMod10(ip)
    IN  IF TierTable[ip] = "high" THEN 75 + 2 * h
        ELSE IF TierTable[ip] = "med" THEN 20 + 3 * h
        ELSE (2 * h + 5) \div 10

Clamp100(s) == IF s < 0 THEN 0 ELSE IF s > 100 THEN 100 ELSE s

NoValue == -1

\* _abuse_lookup had it lacked the test of _last_abuse_fail
AbuseLookupNoCooldown(ip, api) ==
    IF ~abuse_key
    THEN [value |-> NoValue, issued |-> FALSE, last_fail |-> last_abuse_fail]
    ELSE IF api = ApiFail
    THEN [value |-> NoValue, issued |-> TRUE, last_fail |-> now]
    ELSE [value |-> Clamp100(api), issued |-> TRUE, last_fail |-> last_abuse_fail]

\* _abuse_lookup(ip): the value (NoValue for None), whether a request was sent,
\* and _last_abuse_fail afterwards.
AbuseLookup(ip, api) ==
    IF ~abuse_key
    THEN [value |-> NoValue, issued |-> FALSE, last_fail |-> last_abuse_fail]
    ELSE IF now - last_abuse_fail < CooldownMs
    THEN [value |-> NoValue, issued |-> FALSE, last_fail |-> last_abuse_fail]
    ELSE IF api = ApiFail
    THEN [value |-> NoValue, issued |-> TRUE, last_fail |-> now]
    ELSE [value |-> Clamp100(api), issued |-> TRUE, last_fail |-> last_abuse_fail]

\* check_ip_reputation without its first test
ReputationOfPublic(ip, api) ==
    IF \E e \in bad_entries : e \in MatchTable[ip]
    THEN [score |-> 100, issued |-> FALSE, last_fail |-> last_abuse_fail, by |-> "droplist"]
    ELSE LET v == AbuseLookup(ip, api)
         IN  IF v.value # NoValue
             THEN [score |-> v.value, issued |-> TRUE, last_fail |-> v.last_fail, by |-> "api"]
             ELSE [score |-> Heuristic(ip), issued |-> v.issued, last_fail |-> v.last_fail,
                   by |-> "heuristic"]

\* check_ip_reputation had it gone to the drop-lists without the is_private test
CheckIpReputationNoPrivateTest(ip, api) ==
    IF ~ParsesTable[ip]
    THEN [score |-> 0, issued |-> FALSE, last_fail |-> last_abuse_fail, by |-> "unparsable"]
    ELSE ReputationOfPublic(ip, api)

\* check_ip_reputation(ip): the score in hundredths, whether a request was sent,
\* _last_abuse_fail afterwards, and the rule that decided.
CheckIpReputation(ip, api) ==
    IF ~ParsesTable[ip]
    THEN [score |-> 0, issued |-> FALSE, last_fail |-> last_abuse_fail, by |-> "unparsable"]
    ELSE IF PrivateTable[ip]
    THEN [score |-> 0, issued |-> FALSE, last_fail |-> last_abuse_fail, by |-> "private"]
    ELSE ReputationOfPublic(ip, api)

IntelCall(ip, r) ==
    [ip |-> ip, score |-> r.score, issued |-> r.issued, by |-> r.by,
     at |-> now, pre_fail |-> last_abuse_fail]

\* The drop-lists tried: empty, one block, several entries.
DropLists ==
    { {}, {Cidr(<<203, 0, 113, 0>>, 24)}, {Cidr(<<45, 1, 2, 0>>, 24), Dotted(<<8, 8, 8, 8>>)},
      {Cidr(<<10, 0, 0, 0>>, 8), <<"1", "3", ".", "1", "/", "1", "6">>}, DropEntries }

IntelInit(entrySets, seeds, keys) ==
    /\ bad_entries \in entrySets
    /\ abuse_key \in keys
    /\ last_abuse_fail = 0
    /\ hash_seed \in seeds
    /\ intel_call = [ip |-> <<>>, score |-> 0, issued |-> FALSE, by |-> "none",
                     at |-> now, pre_fail |-> 0]

----------------------------------------------------------------------------
(* The clock *)

\* time.time() at start-up; the absolute value plays no role.
StartTime == 100 * 1000

Tick(steps) ==
    /\ nticks < MaxClock
    /\ \E d \in steps : now' = now + d
    /\ nticks' = nticks + 1

----------------------------------------------------------------------------
(* BehavioralAnomalyDetector *)

LearningPeriod == 15000
BurstMs == 300
BurstBonus == 30

\* The threads that call calculate_threat_score.
Callers == {1, 2}

\* random.uniform(0.5, 3.0) in ms, random.uniform(0.6, 1.0) and
\* random.uniform(0.0, 0.2) in hundredths: the ends and a value inside.
InitialIntervals == {500, 3000}
RandomFactors == {60, 100}
Jitters == {0, 20}

ScIdle == [pc |-> "idle", ip |-> <<>>, interval |-> 0, count |-> 0, score |-> 0]

\* round(min(1.0, deviation * factor + bonus + jitter), 2), in hundredths, with
\* deviation = max(0, (avg - interval) / avg).
ThreatScore(avg, interval, rf, jit) ==
    LET num == IF avg - interval > 0 THEN avg - interval ELSE 0
        base == (2 * num * rf + avg) \div (2 * avg)
        total == base + (IF interval < BurstMs THEN BurstBonus ELSE 0) + jit
    IN  IF total > 100 THEN 100 ELSE total

\* calculate_threat_score(ip) is entered by caller t
ScCall(t, ip) ==
    /\ sc[t].pc = "idle"
    /\ sc' = [sc EXCEPT ![t] = [ScIdle EXCEPT !.pc = "check", !.ip = ip]]
    /\ UNCHANGED <<learning_mode, learning_start, ip_activity, mode_log, ncreated, ncalls>>

\* the test "learning_mode and time.time() - learning_start > learning_period"
ModeExpired == learning_mode /\ (now - learning_start) > LearningPeriod

ScCheck(t) ==
    /\ sc[t].pc = "check"
    /\ sc' = [sc EXCEPT ![t].pc = IF ModeExpired THEN "flip" ELSE "seen"]
    /\ UNCHANGED <<learning_mode, learning_start, ip_activity, mode_log, ncreated, ncalls>>

\* learning_mode = False and the log line
ScFlip(t) ==
    /\ sc[t].pc = "flip"
    /\ learning_mode' = FALSE
    /\ mode_log' = mode_log + 1
    /\ sc' = [sc EXCEPT ![t].pc = "seen"]
    /\ UNCHANGED <<learning_start, ip_activity, ncreated, ncalls>>

\* the test "ip not in self.ip_activity"
ScSeen(t) ==
    /\ sc[t].pc = "seen"
    /\ sc' = [sc EXCEPT ![t].pc = IF sc[t].ip \in DOMAIN ip_activity THEN "touch"
                                  ELSE "create"]
    /\ UNCHANGED <<learning_mode, learning_start, ip_activity, mode_log, ncreated, ncalls>>

\* self.ip_activity[ip] = {count: 0, last_seen: now, avg_interval: random}
ScCreate(t) ==
    /\ sc[t].pc = "create"
    /\ \E a0 \in InitialIntervals :
         ip_activity' = [a \in DOMAIN ip_activity \cup {sc[t].ip} |->
                            IF a = sc[t].ip
                            THEN [count |-> 0, last_seen |-> now, avg_interval |-> a0]
                            ELSE ip_activity[a]]
    /\ ncreated' = [ncreated EXCEPT ![sc[t].ip] = @ + 1]
    /\ sc' = [sc EXCEPT ![t].pc = "touch"]
    /\ UNCHANGED <<learning_mode, learning_start, mode_log, ncalls>>

\* interval = now - data["last_seen"]; data["last_seen"] = now; load of data["count"]
ScTouch(t) ==
    /\ sc[t].pc = "touch"
    /\ sc' = [sc EXCEPT ![t].pc = "incr",
                        ![t].interval = now - ip_activity[sc[t].ip].last_seen,
                        ![t].count = ip_activity[sc[t].ip].count]
    /\ ip_activity' = [ip_activity EXCEPT ![sc[t].ip].last_seen = now]
    /\ UNCHANGED <<learning_mode, learning_start, mode_log, ncreated, ncalls>>

\* store of data["count"] + 1
ScIncr(t) ==
    /\ sc[t].pc = "incr"
    /\ ip_activity' = [ip_activity EXCEPT ![sc[t].ip].count = sc[t].count + 1]
    /\ sc' = [sc EXCEPT ![t].pc = "score"]
    /\ UNCHANGED <<learning_mode, learning_start, mode_log, ncreated, ncalls>>

\* the score, and while learning avg_interval = (avg_interval + interval) / 2
ScScore(t) ==
    /\ sc[t].pc = "score"
    /\ \E rf \in RandomFactors, jit \in Jitters :
         sc' = [sc EXCEPT ![t].pc = "done",
                          ![t].score = ThreatScore(ip_activity[sc[t].ip].avg_interval,
                                                   sc[t].interval, rf, jit)]
    /\ ip_activity' = IF learning_mode
                      THEN [ip_activity EXCEPT ![sc[t].ip].avg_interval =
                                                   (@ + sc[t].interval) \div 2]
                      ELSE ip_activity
    /\ ncalls' = [ncalls EXCEPT ![sc[t].ip] = @ + 1]
    /\ UNCHANGED <<learning_mode, learning_start, mode_log, ncreated>>

\* the caller has its score
ScReturn(t) ==
    /\ sc[t].pc = "done"
    /\ sc' = [sc EXCEPT ![t] = ScIdle]
    /\ UNCHANGED <<learning_mode, learning_start, ip_activity, mode_log, ncreated, ncalls>>

\* One step of a calculate_threat_score call in progress
ScStep(t) ==
    \/ ScCheck(t)
    \/ ScFlip(t)
    \/ ScSeen(t)
    \/ ScCreate(t)
    \/ ScTouch(t)
    \/ ScIncr(t)
    \/ ScScore(t)

\* get_status(): the mode, and int(learning_period - elapsed) seconds, not below 0
GetStatus ==
    IF learning_mode
    THEN [mode |-> "Learning",
          time_remaining |-> IF LearningPeriod - (now - learning_start) > 0
                             THEN (LearningPeriod - (now - learning_start)) \div 1000
                             ELSE 0]
    ELSE [mode |-> "Monitoring"]

\* 8.8.8.8 was seen once at start-up: its record after that first call, which
\* folded an interval of 0 into an initial avg_interval of 500 ms.
SeenOnce ==
    [a \in {Dotted(<<8, 8, 8, 8>>)} |->
        [count |-> 1, last_seen |-> StartTime, avg_interval |-> 250]]

NoActivity == [a \in {} |-> 0]

ScoreInitWith(activity) ==
    /\ learning_mode = TRUE
    /\ learning_start = now
    /\ ip_activity = activity
    /\ mode_log = 0
    /\ ncreated = [a \in PublicAddrs |-> IF a \in DOMAIN activity THEN 1 ELSE 0]
    /\ ncalls = [a \in PublicAddrs |-> IF a \in DOMAIN activity THEN activity[a].count ELSE 0]
    /\ sc = [t \in Callers |-> ScIdle]

ScoreInit == ScoreInitWith(NoActivity)

----------------------------------------------------------------------------
(* process_packet and the traffic queue *)

BlockThreshold == 60

\* GeoLocator._is_private_ip: ValueError counts as not private.
GeoIsPrivateIp(ip) == IF ParsesTable[ip] THEN PrivateTable[ip] ELSE FALSE

\* min(1.0, round(intel_score + behavior_score, 2))
FinalScore(intel, behavior) == IF intel + behavior > 100 THEN 100 ELSE intel + behavior

\* the threshold test had it been written final_score > 0.6
ShouldBlockStrict(final) == final > BlockThreshold

\* final_score >= 0.6
ShouldBlock(final) == final >= BlockThreshold

TriIdle == [pc |-> "idle", src |-> <<>>, dst |-> <<>>, external |-> <<>>, intel |-> 0]

NoEvent == [src_ip |-> <<>>, dst_ip |-> <<>>, external_ip |-> <<>>, score |-> 0,
            country |-> "Unknown", blocked |-> FALSE]

TriNone == [kind |-> "none", src |-> <<>>, dst |-> <<>>, external |-> <<>>, intel |-> 0,
            behavior |-> 0, block_calls |-> 0, enqueued |-> 0, event |-> NoEvent]

\* process_packet(packet) up to the reputation lookup: a private-to-private
\* packet is dropped, otherwise the external side is scored.
TriPacket(src, dst, apis) ==
    /\ tri.pc = "idle"
    /\ npackets < MaxPackets
    /\ Len(traffic_data_queue) < MaxQueue
    /\ npackets' = npackets + 1
    /\ IF GeoIsPrivateIp(src) /\ GeoIsPrivateIp(dst)
       THEN /\ tri_done' = [TriNone EXCEPT !.kind = "dropped", !.src = src, !.dst = dst]
            /\ UNCHANGED <<tri, intelVars, sc>>
       ELSE LET ext == IF GeoIsPrivateIp(src) THEN dst ELSE src
            IN  \E api \in apis :
                  LET r == CheckIpReputation(ext, api)
                  IN  /\ tri' = [pc |-> "scoring", src |-> src, dst |-> dst,
                                 external |-> ext, intel |-> r.score]
                      /\ intel_call' = IntelCall(ext, r)
                      /\ last_abuse_fail' = r.last_fail
                      /\ sc' = [sc EXCEPT ![1] = [ScIdle EXCEPT !.pc = "check", !.ip = ext]]
                      /\ UNCHANGED <<tri_done, bad_entries, abuse_key, hash_seed>>
    /\ UNCHANGED <<traffic_data_queue, fwVars, learning_mode, learning_start, ip_activity,
                   mode_log, ncreated, ncalls>>

\* process_packet from the behaviour score on: the final score, the block, the event.
TriFinish(eos, sos, countries) ==
    /\ tri.pc = "scoring"
    /\ sc[1].pc = "done"
    /\ LET final == FinalScore(tri.intel, sc[1].score)
       IN  \E country \in countries :
             LET ev == [src_ip |-> tri.src, dst_ip |-> tri.dst, external_ip |-> tri.external,
                        score |-> final, country |-> country, blocked |-> ShouldBlock(final)]
             IN  /\ IF ShouldBlock(final)
                    THEN BlockIp(tri.external, eos, sos)
                    ELSE UNCHANGED fwVars
                 /\ traffic_data_queue' = Append(traffic_data_queue, ev)
                 /\ tri_done' = [kind |-> "triaged", src |-> tri.src, dst |-> tri.dst,
                                 external |-> tri.external, intel |-> tri.intel,
                                 behavior |-> sc[1].score,
                                 block_calls |-> fw_call'.seq - fw_call.seq,
                                 enqueued |-> Len(traffic_data_queue') - Len(traffic_data_queue),
                                 event |-> ev]
    /\ tri' = TriIdle
    /\ sc' = [sc EXCEPT ![1] = ScIdle]
    /\ UNCHANGED <<npackets, intelVars, learning_mode, learning_start, ip_activity, mode_log,
                   ncreated, ncalls>>

\* the /traffic route: drains the queue
PollTraffic ==
    /\ traffic_data_queue # <<>>
    /\ traffic_data_queue' = <<>>
    /\ UNCHANGED <<tri, tri_done, npackets>>

TriInit ==
    /\ tri = TriIdle
    /\ traffic_data_queue = <<>>
    /\ tri_done = TriNone
    /\ npackets = 0

----------------------------------------------------------------------------
(* FileIntegrityMonitor *)

\* The files of the watched directory, in os.walk order.
WalkOrder == << <<"/", "a">>, <<"/", "b">>, <<"/", "C">> >>

RawPaths == { WalkOrder[i] : i \in 1..Len(WalkOrder) }

\* What a path holds: no file, a file that cannot be read, or a file whose
\* content has this sha256.
FileStates == {"absent", "unreadable", "h1", "h2"}

\* os.path.normcase(os.path.abspath(path)): lower case on Windows, as is elsewhere.
LowerChar(c) == IF c = "C" THEN "c" ELSE c

NormCase(p) == IF os = "windows" THEN [i \in 1..Len(p) |-> LowerChar(p[i])] ELSE p

\* A dict is the sequence of its items in insertion order.
DictKeys(d) == { d[i].k : i \in 1..Len(d) }

DictHas(d, k) == \E i \in 1..Len(d) : d[i].k = k

DictGet(d, k) == d[CHOOSE i \in 1..Len(d) : d[i].k = k].v

DictSet(d, k, v) ==
    IF DictHas(d, k)
    THEN [i \in 1..Len(d) |-> IF d[i].k = k THEN [k |-> k, v |-> v] ELSE d[i]]
    ELSE Append(d, [k |-> k, v |-> v])

KeysOf(d) == [i \in 1..Len(d) |-> d[i].k]

\* _scan_current(), and the same walk in create_baseline(): every file counts
\* towards max_files, only a file that could be hashed is recorded.
RECURSIVE ScanFrom(_, _, _)
ScanFrom(i, snapshot, count) ==
    IF i > Len(WalkOrder) THEN snapshot
    ELSE IF fs[WalkOrder[i]] = "absent" THEN ScanFrom(i + 1, snapshot, count)
    ELSE LET s2 == IF fs[WalkOrder[i]] = "unreadable" THEN snapshot
                   ELSE DictSet(snapshot, NormCase(WalkOrder[i]), fs[WalkOrder[i]])
         IN  IF max_files # 0 /\ count + 1 >= max_files THEN s2
             ELSE ScanFrom(i + 1, s2, count + 1)

ScanCurrent == ScanFrom(1, <<>>, 0)

\* _load_baseline: {normcase(k): v for k, v in data.items()}, {} when unreadable;
\* __init__ does not call it when the file is missing.
RECURSIVE NormKeys(_, _)
NormKeys(data, acc) ==
    IF data = <<>> THEN acc
    ELSE NormKeys(Tail(data), DictSet(acc, NormCase(Head(data).k), Head(data).v))

\* _load_baseline had it scanned the directories when the file cannot be used
LoadBaselineOrScan(file) ==
    IF file.kind = "json" THEN NormKeys(file.data, <<>>) ELSE ScanCurrent

LoadBaseline(file) == IF file.kind = "json" THEN NormKeys(file.data, <<>>) ELSE <<>>

\* the first loop of detect_drift
Removed(b, cur) ==
    LET Gone(e) == ~DictHas(cur, e.k)
    IN  KeysOf(SelectSeq(b, Gone))

Modified(b, cur) ==
    LET Differs(e) == DictHas(cur, e.k) /\ DictGet(cur, e.k) # e.v
    IN  KeysOf(SelectSeq(b, Differs))

\* the second loop had it lacked "if path not in self.baseline"
AddedAll(b, cur) == KeysOf(cur)

\* the second loop of detect_drift
Added(b, cur) ==
    LET New(e) == ~DictHas(b, e.k)
    IN  KeysOf(SelectSeq(cur, New))

NoDrift == [returned |-> "none", modified |-> <<>>, added |-> <<>>, removed |-> <<>>,
            total_changes |-> 0]

\* The event detect_drift builds, or None.
DriftResult(b, cur) ==
    LET m == Modified(b, cur)
        a == Added(b, cur)
        r == Removed(b, cur)
    IN  IF m # <<>> \/ r # <<>> \/ a # <<>>
        THEN [returned |-> "event", modified |-> m, added |-> a, removed |-> r,
              total_changes |-> Len(m) + Len(a) + Len(r)]
        ELSE NoDrift

DriftCall(op, result, cur, q) ==
    [op |-> op, result |-> result, current |-> cur, pre_baseline |-> baseline,
     pre_file |-> baseline_file, pre_queue |-> integrity_queue, post_queue |-> q]

\* create_baseline(): baseline is replaced only after the file was written.
CreateBaselineInto(so) ==
    LET snapshot == ScanCurrent
    IN  /\ baseline_file' = IF so = "ok" THEN JsonFile(snapshot)
                            ELSE IF so = "open_fails" THEN baseline_file
                            ELSE CorruptFile
        /\ baseline' = IF so = "ok" THEN snapshot ELSE baseline

CreateBaseline ==
    /\ ndrift < MaxDriftOps
    /\ ndrift' = ndrift + 1
    /\ \E so \in SaveOutcomes : CreateBaselineInto(so)
    /\ drift_call' = DriftCall("create_baseline", NoDrift, ScanCurrent, integrity_queue)
    /\ drift_prev' = [valid |-> FALSE, result |-> NoDrift]
    /\ UNCHANGED <<fs, max_files, running, integrity_queue>>

\* detect_drift() had it adopted the current snapshot (self.baseline = current;
\* self._save_baseline()) after reporting
DetectDriftSelfHealing(forced) ==
    /\ ndrift < MaxDriftOps
    /\ forced \/ running
    /\ ndrift' = ndrift + 1
    /\ LET cur == ScanCurrent
           res == DriftResult(baseline, cur)
           q == IF res.returned = "event" THEN Append(integrity_queue, res)
                ELSE integrity_queue
       IN  /\ integrity_queue' = q
           /\ drift_call' = DriftCall(IF forced THEN "force_scan" ELSE "detect_drift", res, cur, q)
           /\ drift_prev' = IF drift_call.op \in {"force_scan", "detect_drift"}
                            THEN [valid |-> TRUE, result |-> drift_call.result]
                            ELSE [valid |-> FALSE, result |-> NoDrift]
    /\ baseline' = ScanCurrent
    /\ baseline_file' = JsonFile(ScanCurrent)
    /\ UNCHANGED <<fs, max_files, running>>

\* detect_drift(), from the background loop (while running) or from force_scan()
DetectDrift(forced) ==
    /\ ndrift < MaxDriftOps
    /\ forced \/ running
    /\ ndrift' = ndrift + 1
    /\ LET cur == ScanCurrent
           res == DriftResult(baseline, cur)
           q == IF res.returned = "event" THEN Append(integrity_queue, res)
                ELSE integrity_queue
       IN  /\ integrity_queue' = q
           /\ drift_call' = DriftCall(IF forced THEN "force_scan" ELSE "detect_drift", res, cur, q)
           /\ drift_prev' = IF drift_call.op \in {"force_scan", "detect_drift"}
                            THEN [valid |-> TRUE, result |-> drift_call.result]
                            ELSE [valid |-> FALSE, result |-> NoDrift]
    /\ UNCHANGED <<fs, max_files, baseline, baseline_file, running>>

\* start_monitoring(): a first baseline when none is loaded, then the loop runs
StartMonitoring ==
    /\ ndrift < MaxDriftOps
    /\ ndrift' = ndrift + 1
    /\ IF running THEN UNCHANGED <<baseline, baseline_file, running>>
       ELSE /\ IF baseline = <<>>
               THEN \E so \in SaveOutcomes : CreateBaselineInto(so)
               ELSE UNCHANGED <<baseline, baseline_file>>
            /\ running' = TRUE
    /\ drift_call' = DriftCall("start_monitoring", NoDrift, <<>>, integrity_queue)
    /\ drift_prev' = [valid |-> FALSE, result |-> NoDrift]
    /\ UNCHANGED <<fs, max_files, integrity_queue>>

\* ---- the background loop and force_scan as threads: the steps of detect_drift
LoopThreads == {"loop1", "loop2"}
DdThreads == LoopThreads \cup {"forced"}
NoThread == "none"

\* late: the detect_drift calls this loop began while self.running was false,
\* since monitoring was last started (2: several)
\* base: the mapping self.baseline referred to in the modified/removed loop
DdIdle == [pc |-> "idle", current |-> <<>>, modified |-> <<>>, removed |-> <<>>,
           added |-> <<>>, base |-> <<>>, late |-> 0]

\* threading.Thread(target=_loop).start(): the loop starts with its initial sleep
SpawnLoop ==
    LET t == CHOOSE u \in LoopThreads :
                 dd[u].pc = "idle" /\ (u = "loop1" \/ dd["loop1"].pc # "idle")
    IN  dd' = [u \in DdThreads |->
                  [dd[u] EXCEPT !.late = 0, !.pc = IF u = t THEN "sleep" ELSE @]]

\* a sleep of _loop ends and "while self.running" is evaluated
LoopTest(t) ==
    /\ dd[t].pc = "sleep"
    /\ dd' = [dd EXCEPT ![t].pc = IF running THEN "call" ELSE "exited"]

\* force_scan() is called
ForceScan(t) ==
    /\ dd[t].pc = "idle"
    /\ dd' = [dd EXCEPT ![t].pc = "call"]

\* detect_drift had it lacked "with self.lock"
DdEnterNoLock(t) ==
    /\ dd[t].pc = "call"
    /\ scan_lock' = t
    /\ dd' = [dd EXCEPT ![t].pc = "scan",
                        ![t].late = IF running \/ t \notin LoopThreads THEN @
                                    ELSE IF @ = 0 THEN 1 ELSE 2]

\* detect_drift() is called and acquires self.lock
DdEnter(t) ==
    /\ dd[t].pc = "call"
    /\ scan_lock = NoThread
    /\ scan_lock' = t
    /\ dd' = [dd EXCEPT ![t].pc = "scan",
                        ![t].late = IF running \/ t \notin LoopThreads THEN @
                                    ELSE IF @ = 0 THEN 1 ELSE 2]

\* One step inside the lock: the scan, the modified/removed loop, the added
\* loop, then the event is built and put on the queue, the lock released and
\* the call returns (to the loop's sleep, or to the caller of force_scan).
DdStep(t) ==
    \/ /\ dd[t].pc = "scan"
       /\ dd' = [dd EXCEPT ![t].pc = "cmp1", ![t].current = ScanCurrent]
       /\ UNCHANGED <<scan_lock, integrity_queue>>
    \/ /\ dd[t].pc = "cmp1"
       /\ dd' = [dd EXCEPT ![t].pc = "cmp2",
                           ![t].base = baseline,
                           ![t].modified = Modified(baseline, dd[t].current),
                           ![t].removed = Removed(baseline, dd[t].current)]
       /\ UNCHANGED <<scan_lock, integrity_queue>>
    \/ /\ dd[t].pc = "cmp2"
       /\ dd' = [dd EXCEPT ![t].pc = "emit", ![t].added = Added(baseline, dd[t].current)]
       /\ UNCHANGED <<scan_lock, integrity_queue>>
    \/ /\ dd[t].pc = "emit"
       /\ IF dd[t].modified # <<>> \/ dd[t].removed # <<>> \/ dd[t].added # <<>>
          THEN /\ Len(integrity_queue) < MaxQueue
               /\ integrity_queue' =
                     Append(integrity_queue,
                            [returned |-> "event", modified |-> dd[t].modified,
                             added |-> dd[t].added, removed |-> dd[t].removed,
                             total_changes |-> Len(dd[t].modified) + Len(dd[t].added)
                                                 + Len(dd[t].removed)])
          ELSE UNCHANGED integrity_queue
       /\ scan_lock' = NoThread
       /\ dd' = [dd EXCEPT ![t] = [DdIdle EXCEPT !.late = dd[t].late,
                                                !.pc = IF t \in LoopThreads THEN "sleep"
                                                       ELSE "idle"]]

\* stop_monitoring()
StopMonitoring ==
    /\ running
    /\ running' = FALSE
    /\ UNCHANGED <<fs, max_files, baseline, baseline_file, integrity_queue, drift_call,
                   drift_prev, ndrift>>

\* shutdown_handler: stop_monitoring() and then sys.exit(0) without a join; the
\* threads are daemon threads, so the exit ends each of them where it stands
ShutdownHandler ==
    /\ running' = FALSE
    /\ dd' = [t \in DdThreads |-> [dd[t] EXCEPT !.pc = "killed"]]
    /\ UNCHANGED <<fs, max_files, baseline, baseline_file, integrity_queue, drift_call,
                   drift_prev, ndrift>>

\* the process has not exited
ProcessAlive == \A t \in DdThreads : dd[t].pc # "killed"

\* ---- the /traffic and /integrity routes, one step at a time
Routes == {"traffic", "integrity"}

PollIdle == [pc |-> "idle", route |-> "none", data |-> <<>>]

\* what was put on each queue and what the routes have returned, in order
QlogIdle == [produced_t |-> <<>>, delivered_t |-> <<>>, produced_i |-> <<>>,
             delivered_i |-> <<>>]

RouteQueue(r) == IF r = "traffic" THEN traffic_data_queue ELSE integrity_queue

\* the request arrives: data = [] (events = [])
PollBegin(r) ==
    /\ poll.pc = "idle"
    /\ poll' = [pc |-> "test", route |-> r, data |-> <<>>]
    /\ UNCHANGED <<traffic_data_queue, integrity_queue, qlog>>

\* "while not queue.empty()": go on to get(), or return jsonify(data)
PollTest ==
    /\ poll.pc = "test"
    /\ IF RouteQueue(poll.route) # <<>>
       THEN /\ poll' = [poll EXCEPT !.pc = "get"]
            /\ UNCHANGED qlog
       ELSE /\ poll' = PollIdle
            /\ qlog' = IF poll.route = "traffic"
                       THEN [qlog EXCEPT !.delivered_t = @ \o poll.data]
                       ELSE [qlog EXCEPT !.delivered_i = @ \o poll.data]
    /\ UNCHANGED <<traffic_data_queue, integrity_queue>>

\* a get() that left the item on the queue
PollGetPeek ==
    /\ poll.pc = "get"
    /\ RouteQueue(poll.route) # <<>>
    /\ poll' = [poll EXCEPT !.pc = "test", !.data = Append(@, Head(RouteQueue(poll.route)))]
    /\ UNCHANGED <<traffic_data_queue, integrity_queue, qlog>>

\* data.append(queue.get()): get() waits while the queue is empty
PollGet ==
    /\ poll.pc = "get"
    /\ RouteQueue(poll.route) # <<>>
    /\ poll' = [poll EXCEPT !.pc = "test", !.data = Append(@, Head(RouteQueue(poll.route)))]
    /\ IF poll.route = "traffic"
       THEN traffic_data_queue' = Tail(traffic_data_queue) /\ UNCHANGED integrity_queue
       ELSE integrity_queue' = Tail(integrity_queue) /\ UNCHANGED traffic_data_queue
    /\ UNCHANGED qlog

\* the /integrity route: drains the queue
PollIntegrity ==
    /\ integrity_queue # <<>>
    /\ integrity_queue' = <<>>
    /\ UNCHANGED <<fs, max_files, baseline, baseline_file, running, drift_call, drift_prev,
                   ndrift>>

\* Something outside the program creates, rewrites, locks or deletes a file.
FsChange ==
    /\ ndrift < MaxDriftOps
    /\ ndrift' = ndrift + 1
    /\ \E p \in RawPaths, v \in FileStates :
         /\ fs[p] # v
         /\ fs' = [fs EXCEPT ![p] = v]
    /\ drift_call' = DriftCall("fs_change", NoDrift, <<>>, integrity_queue)
    /\ drift_prev' = [valid |-> FALSE, result |-> NoDrift]
    /\ UNCHANGED <<max_files, baseline, baseline_file, running, integrity_queue>>

\* The baseline record a previous run may have left: none, an unreadable one, or
\* the snapshot {"/a": "h1", "/b": "h2"}.
InitialBaselineFiles ==
    { NoFile, CorruptFile,
      JsonFile(<< [k |-> <<"/", "a">>, v |-> "h1"], [k |-> <<"/", "b">>, v |-> "h2"] >>) }

\* The directory at start-up: empty, or /a with h1, /b with h3 and /C with h4.
InitialFs ==
    { [p \in RawPaths |-> "absent"],
      [p \in RawPaths |-> IF p = <<"/", "a">> THEN "h1"
                           ELSE IF p = <<"/", "b">> THEN "h3" ELSE "h4"] }

DriftInit(fss, caps, files) ==
    /\ fs \in fss
    /\ max_files \in caps
    /\ baseline_file \in files
    /\ baseline = LoadBaseline(baseline_file)
    /\ running = FALSE
    /\ integrity_queue = <<>>
    /\ drift_call = [op |-> "none", result |-> NoDrift, current |-> <<>>,
                     pre_baseline |-> baseline, pre_file |-> baseline_file,
                     pre_queue |-> <<>>, post_queue |-> <<>>]
    /\ drift_prev = [valid |-> FALSE, result |-> NoDrift]
    /\ ndrift = 0

----------------------------------------------------------------------------
(* Specifications: one per component, the others at rest *)

Platforms == {"windows", "linux"}

ClockInit == now = StartTime /\ nticks = 0

\* no call in progress in any thread
ConcRest ==
    /\ fwt = [t \in FwThreads |-> FwtIdle]
    /\ dd = [t \in DdThreads |-> DdIdle]
    /\ scan_lock = NoThread
    /\ poll = PollIdle
    /\ qlog = QlogIdle

FwRest    == FwInit({NoFile})
IntelRest == IntelInit({{}}, {0}, {FALSE})
DriftRest == DriftInit({[p \in RawPaths |-> "absent"]}, {0}, {NoFile})

\* ---- the firewall controller, calls issued one at a time
FwSpecInit ==
    /\ os \in Platforms
    /\ ClockInit /\ ConcRest
    /\ FwInit(InitialRecordFiles)
    /\ IntelRest /\ ScoreInit /\ TriInit /\ DriftRest

Block ==
    /\ fw_call.seq < MaxFwCalls
    /\ \E ip \in Addrs : BlockIp(ip, EnforceOutcomes, SaveOutcomes)
    /\ UNCHANGED <<os, concVars, now, nticks, intelVars, scoreVars, triVars, driftVars>>

Unblock ==
    /\ fw_call.seq < MaxFwCalls
    /\ \E ip \in Addrs : UnblockIp(ip, EnforceOutcomes, SaveOutcomes)
    /\ UNCHANGED <<os, concVars, now, nticks, intelVars, scoreVars, triVars, driftVars>>

FwNext == Block \/ Unblock

Spec == FwSpecInit /\ [][FwNext]_vars

\* ---- the firewall controller while every write of the record succeeds
PersistBlock ==
    /\ fw_call.seq < MaxFwCalls
    /\ \E ip \in Addrs : BlockIp(ip, EnforceOutcomes, {"ok"})
    /\ UNCHANGED <<os, concVars, now, nticks, intelVars, scoreVars, triVars, driftVars>>

PersistUnblock ==
    /\ fw_call.seq < MaxFwCalls
    /\ \E ip \in Addrs : UnblockIp(ip, EnforceOutcomes, {"ok"})
    /\ UNCHANGED <<os, concVars, now, nticks, intelVars, scoreVars, triVars, driftVars>>

SpecPersist == FwSpecInit /\ [][PersistBlock \/ PersistUnblock]_vars

\* ---- the firewall controller called from two threads, for different addresses
FwThreadsCall ==
    /\ fw_call.seq < MaxFwCalls
    /\ \E t \in FwThreads, op \in {"block", "unblock"}, ip \in PublicAddrs :
         /\ \A u \in FwThreads : fwt[u].ip # ip
         /\ FwtCall(t, op, ip, {"ok", "raise_first"})
    /\ UNCHANGED <<os, now, nticks, intelVars, scoreVars, triVars, driftVars,
                   dd, scan_lock, poll, qlog>>

FwThreadsStep ==
    /\ \E t \in FwThreads : FwtStep(t)
    /\ UNCHANGED <<os, now, nticks, intelVars, scoreVars, triVars, driftVars,
                   dd, scan_lock, poll, qlog>>

SpecFwThreads == FwSpecInit /\ [][FwThreadsCall \/ FwThreadsStep]_vars

\* ---- the file integrity monitor with its loop threads, force_scan and the poll
MonitorSpecInit ==
    /\ os = "linux"
    /\ ClockInit /\ ConcRest
    /\ DriftInit({[p \in RawPaths |-> IF p = <<"/", "a">> THEN "h1" ELSE "absent"]}, {0},
                 {JsonFile(<<[k |-> <<"/", "a">>, v |-> "h1"]>>)})
    /\ FwRest /\ IntelRest /\ ScoreInit /\ TriInit

MonitorRest == <<os, now, nticks, fwVars, intelVars, scoreVars, triVars, fwt, poll, qlog>>

MonStart ==
    /\ ~running => \E u \in LoopThreads : dd[u].pc = "idle"
    /\ StartMonitoring
    /\ IF running THEN UNCHANGED dd ELSE SpawnLoop
    /\ UNCHANGED <<scan_lock, MonitorRest>>

MonStop == StopMonitoring /\ UNCHANGED <<dd, scan_lock, MonitorRest>>

MonForce ==
    /\ ForceScan("forced")
    /\ UNCHANGED <<driftVars, scan_lock, MonitorRest>>

MonLoopTestOf(t) == LoopTest(t) /\ UNCHANGED <<driftVars, scan_lock, MonitorRest>>

MonLoopTest == \E t \in LoopThreads : MonLoopTestOf(t)

MonEnterOf(t) == DdEnter(t) /\ UNCHANGED <<driftVars, MonitorRest>>

MonEnter == \E t \in DdThreads : MonEnterOf(t)

MonStep ==
    /\ \E t \in DdThreads : DdStep(t)
    /\ UNCHANGED <<fs, max_files, baseline, baseline_file, running, drift_call, drift_prev,
                   ndrift, MonitorRest>>

MonPoll == PollIntegrity /\ UNCHANGED <<dd, scan_lock, MonitorRest>>

\* /a is deleted or restored, /b is created or deleted
MonFsChange ==
    /\ FsChange
    /\ fs'[<<"/", "C">>] = "absent"
    /\ fs'[<<"/", "a">>] \in {"h1", "absent"}
    /\ fs'[<<"/", "b">>] \in {"h1", "absent"}
    /\ UNCHANGED <<dd, scan_lock, MonitorRest>>

MonitorNext ==
    MonStart \/ MonStop \/ MonForce \/ MonLoopTest \/ MonEnter \/ MonStep \/ MonPoll
      \/ MonFsChange

SpecMonitor == MonitorSpecInit /\ [][MonitorNext]_vars

\* ---- a forced scan while create_baseline is called from another thread
RebuildCreate == CreateBaseline /\ UNCHANGED <<dd, scan_lock, MonitorRest>>

RebuildNext == MonForce \/ MonEnter \/ MonStep \/ MonPoll \/ MonFsChange \/ RebuildCreate

SpecRebuild == MonitorSpecInit /\ [][RebuildNext]_vars

\* The monitor with a file tree that stays as it is: /b is not in the
\* baseline, so every scan reports it.
StopSpecInit ==
    /\ os = "linux"
    /\ ClockInit /\ ConcRest
    /\ DriftInit({[p \in RawPaths |-> IF p = <<"/", "C">> THEN "absent" ELSE "h1"]}, {0},
                 {JsonFile(<<[k |-> <<"/", "a">>, v |-> "h1"]>>)})
    /\ FwRest /\ IntelRest /\ ScoreInit /\ TriInit

MonShutdown == ProcessAlive /\ ShutdownHandler /\ UNCHANGED <<scan_lock, MonitorRest>>

StopNext ==
    \/ ProcessAlive /\ MonStart
    \/ ProcessAlive /\ MonStop
    \/ ProcessAlive /\ MonForce
    \/ ProcessAlive /\ MonPoll
    \/ MonLoopTest \/ MonEnter \/ MonStep
    \/ MonShutdown

\* Every thread is scheduled, a thread waiting for the lock gets it at some
\* release, and the front end keeps polling.
SpecStop ==
    /\ StopSpecInit
    /\ [][StopNext]_vars
    /\ \A t \in LoopThreads : WF_vars(MonLoopTestOf(t))
    /\ \A t \in DdThreads : SF_vars(MonEnterOf(t))
    /\ WF_vars(MonStep) /\ WF_vars(MonPoll)

\* ---- the reputation engine
IntelSteps == {100, 4900}

IntelSpecInit ==
    /\ os = "linux"
    /\ ClockInit /\ ConcRest
    /\ IntelInit(DropLists, {0, 9}, BOOLEAN)
    /\ FwRest /\ ScoreInit /\ TriInit /\ DriftRest

Reputation ==
    /\ \E ip \in Addrs, api \in ApiOutcomes :
         LET r == CheckIpReputation(ip, api)
         IN  /\ intel_call' = IntelCall(ip, r)
             /\ last_abuse_fail' = r.last_fail
    /\ UNCHANGED <<bad_entries, abuse_key, hash_seed>>
    /\ UNCHANGED <<os, concVars, now, nticks, fwVars, scoreVars, triVars, driftVars>>

IntelTick ==
    /\ Tick(IntelSteps)
    /\ UNCHANGED <<os, concVars, fwVars, intelVars, scoreVars, triVars, driftVars>>

IntelNext == Reputation \/ IntelTick

SpecIntel == IntelSpecInit /\ [][IntelNext]_vars

\* ---- the behavioural scorer, called from the threads Callers
MaxScoreCalls == 2
ScorerSteps == {100, 15000}
ScorerAddrs == { Dotted(<<8, 8, 8, 8>>), Dotted(<<45, 1, 2, 3>>) }

ScorerSpecInit ==
    /\ os = "linux"
    /\ ClockInit /\ ConcRest
    /\ ScoreInit
    /\ FwRest /\ IntelRest /\ TriInit /\ DriftRest

ScoreRest == <<os, concVars, fwVars, intelVars, triVars, driftVars>>

ScorerCall ==
    /\ \E t \in Callers, ip \in ScorerAddrs :
         /\ Cardinality({u \in Callers : sc[u].pc # "idle"})
              + ncalls[Dotted(<<8, 8, 8, 8>>)] + ncalls[Dotted(<<45, 1, 2, 3>>)] < MaxScoreCalls
         /\ ScCall(t, ip)
    /\ UNCHANGED <<now, nticks, ScoreRest>>

ScorerStep ==
    /\ \E t \in Callers : ScStep(t)
    /\ UNCHANGED <<now, nticks, ScoreRest>>

ScorerReturn ==
    /\ \E t \in Callers : ScReturn(t)
    /\ UNCHANGED <<now, nticks, ScoreRest>>

ScorerTick ==
    /\ Tick(ScorerSteps)
    /\ UNCHANGED <<scoreVars, ScoreRest>>

ScorerNext == ScorerCall \/ ScorerStep \/ ScorerReturn \/ ScorerTick

SpecScorer == ScorerSpecInit /\ [][ScorerNext]_vars

\* ---- triage: the sniffer thread runs process_packet, the front end polls.
\* The run starts fresh, or after a first packet of 8.8.8.8 was scored and blocked.
TriageSteps == {100, 15000}
TriageApi == {ApiFail, 59, 60}
TriageEnforce == {"ok", "raise_first"}
\* (src, dst) of the packets captured: outbound, inbound, private to private.
Flows ==
    { <<Dotted(<<10, 0, 0, 1>>), Dotted(<<45, 1, 2, 3>>)>>,
      <<Dotted(<<8, 8, 8, 8>>), Dotted(<<10, 0, 0, 1>>)>>,
      <<Dotted(<<10, 0, 0, 1>>), Dotted(<<127, 0, 0, 1>>)>> }

TriageSpecInit ==
    /\ os \in Platforms
    /\ ClockInit /\ ConcRest
    /\ IntelInit({{}, {Cidr(<<45, 1, 2, 0>>, 24)}}, {0}, BOOLEAN)
    /\ \/ ScoreInit /\ FwInit({NoFile})
       \/ ScoreInitWith(SeenOnce) /\ FwInit({JsonFile(<<Dotted(<<8, 8, 8, 8>>)>>)})
    /\ TriInit /\ DriftRest

TriagePacket ==
    /\ \E f \in Flows : TriPacket(f[1], f[2], TriageApi)
    /\ UNCHANGED <<os, concVars, now, nticks, driftVars>>

TriageScore ==
    /\ tri.pc = "scoring"
    /\ ScStep(1)
    /\ UNCHANGED <<os, concVars, now, nticks, fwVars, intelVars, triVars, driftVars>>

TriageFinish ==
    /\ TriFinish(TriageEnforce, {"ok"}, {"Unknown"})
    /\ UNCHANGED <<os, concVars, now, nticks, driftVars>>

TriagePoll ==
    /\ PollTraffic
    /\ UNCHANGED <<os, concVars, now, nticks, fwVars, intelVars, scoreVars, driftVars>>

\* A packet is handled in far less than the smallest clock step: the clock
\* advances between packets.
TriageTick ==
    /\ tri.pc = "idle"
    /\ Tick(TriageSteps)
    /\ UNCHANGED <<os, concVars, fwVars, intelVars, scoreVars, triVars, driftVars>>

TriageNext == TriagePacket \/ TriageScore \/ TriageFinish \/ TriagePoll \/ TriageTick

SpecTriage == TriageSpecInit /\ [][TriageNext]_vars

\* ---- both producers and the polling front end
QueueSpecInit ==
    /\ os = "linux"
    /\ ClockInit /\ ConcRest
    /\ IntelInit({{}}, {0}, {FALSE})
    /\ ScoreInit /\ FwInit({NoFile})
    /\ TriInit
    /\ DriftInit({[p \in RawPaths |-> IF p = <<"/", "C">> THEN "absent" ELSE "h1"]}, {0},
                 {JsonFile(<<[k |-> <<"/", "a">>, v |-> "h1"]>>)})

QueueRest == <<os, now, nticks, fwt, dd, scan_lock>>

\* what a producer step has put on the queues is appended to the log
LogPuts ==
    qlog' = [qlog EXCEPT
               !.produced_t = @ \o SubSeq(traffic_data_queue', Len(traffic_data_queue) + 1,
                                          Len(traffic_data_queue')),
               !.produced_i = @ \o SubSeq(integrity_queue', Len(integrity_queue) + 1,
                                          Len(integrity_queue'))]

\* an outbound packet: every packet that gets as far as the put does the same
QueuePacket ==
    /\ TriPacket(Dotted(<<10, 0, 0, 1>>), Dotted(<<45, 1, 2, 3>>), {ApiFail})
    /\ UNCHANGED <<poll, QueueRest, driftVars>>
    /\ LogPuts

QueueScore ==
    /\ tri.pc = "scoring"
    /\ ScStep(1)
    /\ UNCHANGED <<poll, QueueRest, fwVars, intelVars, triVars, driftVars>>
    /\ LogPuts

QueueFinish ==
    /\ TriFinish({"ok"}, {"ok"}, {"Unknown"})
    /\ UNCHANGED <<poll, QueueRest, driftVars>>
    /\ LogPuts

\* The steps of a packet before its put and a drift scan touch different
\* state: a scan is taken between packets, the polls at every point.
QueueDetect ==
    /\ tri.pc = "idle"
    /\ DetectDrift(TRUE)
    /\ UNCHANGED <<poll, QueueRest, fwVars, intelVars, scoreVars, triVars>>
    /\ LogPuts

\* /a is deleted: the events put before and after it differ
QueueFsChange ==
    /\ tri.pc = "idle"
    /\ FsChange
    /\ fs'[<<"/", "a">>] = "absent"
    /\ UNCHANGED <<poll, qlog, QueueRest, fwVars, intelVars, scoreVars, triVars>>

QueueOthers == <<QueueRest, fwVars, intelVars, scoreVars, tri, tri_done, npackets, fs, max_files,
                 baseline, baseline_file, running, drift_call, drift_prev, ndrift>>

QueuePollBegin(r) == PollBegin(r) /\ UNCHANGED QueueOthers

QueuePollTest == PollTest /\ UNCHANGED QueueOthers

QueuePollGet == PollGet /\ UNCHANGED QueueOthers

QueueNext ==
    \/ QueuePacket \/ QueueScore \/ QueueFinish \/ QueueDetect \/ QueueFsChange
    \/ (\E r \in Routes : QueuePollBegin(r)) \/ QueuePollTest \/ QueuePollGet

\* The front end requests both routes over and over and a request runs to
\* its end.
SpecQueue ==
    /\ QueueSpecInit
    /\ [][QueueNext]_vars
    /\ \A r \in Routes : SF_vars(QueuePollBegin(r))
    /\ WF_vars(QueuePollTest) /\ WF_vars(QueuePollGet)

\* ---- the file integrity monitor, operations issued one at a time
DriftSpecInit ==
    /\ os \in Platforms
    /\ ClockInit /\ ConcRest
    /\ DriftInit(InitialFs, {0, 2}, InitialBaselineFiles)
    /\ FwRest /\ IntelRest /\ ScoreInit /\ TriInit

DriftRestVars == <<os, concVars, now, nticks, fwVars, intelVars, scoreVars, triVars>>

DriftCreate == CreateBaseline /\ UNCHANGED DriftRestVars

DriftDetect == (\E forced \in BOOLEAN : DetectDrift(forced)) /\ UNCHANGED DriftRestVars

DriftStart == StartMonitoring /\ UNCHANGED DriftRestVars

DriftStop == StopMonitoring /\ UNCHANGED DriftRestVars

DriftPoll == PollIntegrity /\ UNCHANGED DriftRestVars

DriftFsChange == FsChange /\ UNCHANGED DriftRestVars

DriftNext ==
    DriftCreate \/ DriftDetect \/ DriftStart \/ DriftStop \/ DriftPoll \/ DriftFsChange

SpecDrift == DriftSpecInit /\ [][DriftNext]_vars

\* ---- both components constructed over a record that is missing or cannot
\* be parsed, then used
BadRecordFiles == {NoFile, CorruptFile}

StartupSpecInit ==
    /\ os \in Platforms
    /\ ClockInit /\ ConcRest
    /\ FwInit(BadRecordFiles)
    /\ DriftInit(InitialFs, {0}, BadRecordFiles)
    /\ IntelRest /\ ScoreInit /\ TriInit

\* the first operations after start-up, of either component
StartupBudget == fw_call.seq + ndrift < MaxFwCalls

StartupAddrs == {Dotted(<<8, 8, 8, 8>>), Dotted(<<10, 0, 0, 1>>)}

StartupBlock ==
    /\ StartupBudget
    /\ \E ip \in StartupAddrs : BlockIp(ip, EnforceOutcomes, SaveOutcomes)
    /\ UNCHANGED <<os, concVars, now, nticks, intelVars, scoreVars, triVars, driftVars>>

StartupUnblock ==
    /\ StartupBudget
    /\ \E ip \in StartupAddrs : UnblockIp(ip, EnforceOutcomes, SaveOutcomes)
    /\ UNCHANGED <<os, concVars, now, nticks, intelVars, scoreVars, triVars, driftVars>>

StartupDrift == StartupBudget /\ DriftNext

SpecStartup == StartupSpecInit /\ [][StartupBlock \/ StartupUnblock \/ StartupDrift]_vars

----------------------------------------------------------------------------
(* Properties *)

\* The address classes the specification names, by their octets.
Rfc1918Addr(ip) ==
    LET o == IpOctets(ip)
    IN  o[1] = 10 \/ (o[1] = 172 /\ o[2] \in 16..31) \/ (o[1] = 192 /\ o[2] = 168)

LoopbackAddr(ip) == IpOctets(ip)[1] = 127

LinkLocalAddr(ip) == LET o == IpOctets(ip) IN o[1] = 169 /\ o[2] = 254

\* Not eligible for blocking: unparsable, private, loopback or link-local.
Ineligible(ip) ==
    ~IpParses(ip) \/ Rfc1918Addr(ip) \/ LoopbackAddr(ip) \/ LinkLocalAddr(ip)

\* C1: the firewall never blocks a private, loopback, link-local or unparsable
\* address: no such address is ever in the blocked set, and block() on one
\* changes neither the set nor the record and invokes no platform enforcement.
C1_NeverBlocksIneligible ==
    /\ \A a \in blocked_ips : ~Ineligible(a)
    /\ (fw_call.op = "block" /\ Ineligible(fw_call.ip)) =>
          /\ blocked_ips = fw_call.pre_blocked
          /\ record_file = fw_call.pre_file
          /\ fw_call.enforced = 0
          /\ ~fw_call.persisted

\* block() was called on a link-local address while other addresses are blocked.
C1_Witness ==
    /\ fw_call.op = "block"
    /\ fw_call.ip = Dotted(<<169, 254, 1, 1>>)
    /\ blocked_ips # {}

\* C2: block is idempotent: a second block(a) right after a block(a) leaves the
\* blocked set and the record as they were, invokes no platform enforcement and
\* writes no record.
C2_BlockIdempotent ==
    (fw_call.op = "block" /\ fw_prev.op = "block" /\ fw_prev.ip = fw_call.ip) =>
        /\ blocked_ips = fw_call.pre_blocked
        /\ record_file = fw_call.pre_file
        /\ fw_call.enforced = 0
        /\ ~fw_call.persisted

\* C3: a triaged flow is blocked exactly when its combined score
\* min(1.0, round(intel + behavior, 2)) is at least 0.6: below it the firewall is not
\* called and the event says blocked = false, at or above it the firewall is
\* called once with the external address and the event says blocked = true;
\* either way exactly one event is enqueued, carrying the combined score.
C3_BlockIffThreshold ==
    tri_done.kind = "triaged" =>
        LET sum == tri_done.intel + tri_done.behavior
            combined == IF sum > 100 THEN 100 ELSE sum
        IN  /\ tri_done.event.score = combined
            /\ tri_done.event.external_ip = tri_done.external
            /\ tri_done.enqueued = 1
            /\ combined < 60 => (tri_done.block_calls = 0 /\ ~tri_done.event.blocked)
            /\ combined >= 60 =>
                  /\ tri_done.block_calls = 1
                  /\ tri_done.event.blocked
                  /\ fw_call.op = "block"
                  /\ fw_call.ip = tri_done.external

\* A flow was triaged with a combined score of exactly 0.6 and blocked.
C3_Witness ==
    /\ tri_done.kind = "triaged"
    /\ tri_done.intel + tri_done.behavior = 60
    /\ tri_done.event.blocked
    /\ tri_done.block_calls = 1

\* C4: a drift detection never changes the baseline, in memory or on disk,
\* whether or not it reports drift; the baseline is replaced only where
\* create_baseline runs.
C4_DetectKeepsBaseline ==
    [][ /\ (ndrift' # ndrift /\ drift_call'.op \in {"detect_drift", "force_scan"}) =>
              (baseline' = baseline /\ baseline_file' = baseline_file)
        /\ (baseline' # baseline \/ baseline_file' # baseline_file) =>
              drift_call'.op \in {"create_baseline", "start_monitoring"} ]_vars

\* A detection reported drift and the baseline is still the one it compared to.
C4_Witness ==
    /\ drift_call.op \in {"detect_drift", "force_scan"}
    /\ drift_call.result.returned = "event"
    /\ drift_call.pre_baseline # <<>>
    /\ baseline = drift_call.pre_baseline
    /\ baseline_file = drift_call.pre_file

SeqSet(q) == { q[i] : i \in 1..Len(q) }

NoRepeats(q) == \A i, j \in 1..Len(q) : q[i] = q[j] => i = j

\* C5: for baseline B and current snapshot C a detection reports as removed the
\* paths of B not in C, as modified the paths in both with different digests
\* and as added the paths of C not in B; the lists are disjoint, total_changes
\* is the sum of their lengths, and an event is returned and enqueued exactly
\* when one of them is non-empty.
C5_DriftClassification ==
    drift_call.op \in {"detect_drift", "force_scan"} =>
        LET B == drift_call.pre_baseline
            C == drift_call.current
            r == drift_call.result
            removed == { k \in DictKeys(B) : k \notin DictKeys(C) }
            modified == { k \in DictKeys(B) \cap DictKeys(C) : DictGet(B, k) # DictGet(C, k) }
            added == { k \in DictKeys(C) : k \notin DictKeys(B) }
        IN  /\ SeqSet(r.removed) = removed /\ NoRepeats(r.removed)
            /\ SeqSet(r.modified) = modified /\ NoRepeats(r.modified)
            /\ SeqSet(r.added) = added /\ NoRepeats(r.added)
            /\ SeqSet(r.removed) \cap SeqSet(r.modified) = {}
            /\ SeqSet(r.removed) \cap SeqSet(r.added) = {}
            /\ SeqSet(r.modified) \cap SeqSet(r.added) = {}
            /\ r.total_changes = Len(r.modified) + Len(r.added) + Len(r.removed)
            /\ (r.returned = "event") = (removed \cup modified \cup added # {})
            /\ drift_call.post_queue = IF removed \cup modified \cup added # {}
                                       THEN Append(drift_call.pre_queue, r)
                                       ELSE drift_call.pre_queue

\* B = {/a: h1, /b: h2} and C = {/a: h1, /b: h3, /c: h4}: modified [/b],
\* added [/c], nothing removed, two changes.
C5_Witness ==
    /\ drift_call.op \in {"detect_drift", "force_scan"}
    /\ DictKeys(drift_call.pre_baseline) = {<<"/", "a">>, <<"/", "b">>}
    /\ drift_call.result = [returned |-> "event", modified |-> << <<"/", "b">> >>,
                            added |-> << <<"/", "c">> >>, removed |-> <<>>,
                            total_changes |-> 2]

\* C6: two detections in a row, with no change to the files or the baseline in
\* between, report the same thing: the same lists, or no change both times.
C6_DetectTwiceSame ==
    (drift_prev.valid /\ drift_call.op \in {"detect_drift", "force_scan"}) =>
        drift_call.result = drift_prev.result

\* The second of two detections in a row reported the drift again.
C6_Witness ==
    /\ drift_prev.valid
    /\ drift_call.op \in {"detect_drift", "force_scan"}
    /\ drift_prev.result.returned = "event"
    /\ drift_call.result.returned = "event"

\* C7: status() reports Learning while less than the learning window has
\* elapsed since construction and Monitoring from then on, whether or not a
\* score was ever computed.
C7_StatusFollowsClock ==
    GetStatus.mode = IF now - learning_start < LearningPeriod THEN "Learning"
                     ELSE "Monitoring"

\* C8: the scorer leaves Learning for Monitoring at most once, also with
\* concurrent callers, and never returns to Learning.
C8_SingleTransition ==
    /\ mode_log <= 1
    /\ mode_log >= 1 => ~learning_mode

\* C9: an address that passes the reputation precondition and is contained in
\* a listed block, or equals a listed entry, gets reputation 1.0 without an
\* external lookup; so does 203.0.113.5 with 203.0.113.0/24 listed.
C9_DropListFirst ==
    /\ (/\ intel_call.by # "none"
        /\ IpParses(intel_call.ip)
        /\ ~Rfc1918Addr(intel_call.ip)
        /\ ~LoopbackAddr(intel_call.ip)
        /\ \E e \in bad_entries : EntryMatches(intel_call.ip, e)) =>
           (intel_call.score = 100 /\ ~intel_call.issued)
    /\ (/\ intel_call.ip = Dotted(<<203, 0, 113, 5>>)
        /\ Cidr(<<203, 0, 113, 0>>, 24) \in bad_entries) =>
           intel_call.score = 100

\* C10: a reputation is always within [0, 1], and for an unparsable, private
\* or loopback address it is 0.0 with no external lookup, whatever the
\* drop-lists hold.
C10_ReputationBounds ==
    intel_call.by # "none" =>
        /\ intel_call.score \in 0..100
        /\ (~IpParses(intel_call.ip) \/ Rfc1918Addr(intel_call.ip)
                \/ LoopbackAddr(intel_call.ip)) =>
              /\ intel_call.score = 0
              /\ ~intel_call.issued
              /\ last_abuse_fail = intel_call.pre_fail

\* A private address inside a listed block was looked up with a key configured
\* and no cool-down running.
C10_Witness ==
    /\ intel_call.by # "none"
    /\ intel_call.ip = Dotted(<<10, 0, 0, 1>>)
    /\ Cidr(<<10, 0, 0, 0>>, 8) \in bad_entries
    /\ abuse_key
    /\ intel_call.at - intel_call.pre_fail >= CooldownMs
    /\ intel_call.score = 0

\* C11: a failure of the platform enforcement during block(a), raising
\* included, does not prevent logical blocking: for a not private, not yet
\* blocked address the call still adds a to the blocked set and persists it.
C11_EnforcementFailureStillRecords ==
    [][ (/\ fw_call'.seq # fw_call.seq
         /\ fw_call'.op = "block"
         /\ fw_call'.enforced > 0
         /\ fw_rules'[fw_call'.ip] < fw_rules[fw_call'.ip] + 2) =>
            (fw_call'.ip \in blocked_ips' /\ fw_call'.persisted) ]_vars

\* C12: with calls issued one at a time and every write succeeding, the
\* persisted record holds exactly the blocked set after every call, so that a
\* controller loaded from the record has the same blocked set.
C12_RecordMatchesSet ==
    /\ LoadBlockedIps(record_file) = blocked_ips
    /\ fw_call.persisted =>
          /\ record_file.kind = "json"
          /\ NoRepeats(record_file.data)
          /\ SeqSet(record_file.data) = blocked_ips

\* Two addresses are blocked and recorded after an unblock in between.
C12_Witness ==
    /\ Cardinality(blocked_ips) = 2
    /\ fw_call.op = "block"
    /\ fw_call.persisted
    /\ fw_prev.op = "unblock"
    /\ record_file.kind = "json"

\* C16: no lost updates in the scorer: one activity record is created per
\* address, and its count is the number of completed score calls for the
\* address, also with concurrent callers.
C16_NoLostUpdates ==
    \A a \in DOMAIN ip_activity :
        /\ ncreated[a] = 1
        /\ (\A t \in Callers : sc[t].ip # a) => ip_activity[a].count = ncalls[a]

\* C17: within 5 time-units of a failed external lookup no lookup is issued
\* and the call falls through to the heuristic; a successful lookup starts no
\* cool-down, a failed one does, and without a credential none is ever issued.
C17_Cooldown ==
    intel_call.by # "none" =>
        /\ intel_call.issued =>
              (abuse_key /\ intel_call.at - intel_call.pre_fail >= 5000)
        /\ (intel_call.at - intel_call.pre_fail < 5000
              /\ intel_call.by \notin {"unparsable", "private", "droplist"}) =>
              (intel_call.by = "heuristic" /\ ~intel_call.issued
                 /\ last_abuse_fail = intel_call.pre_fail)
        /\ intel_call.by = "api" => last_abuse_fail = intel_call.pre_fail
        /\ (intel_call.issued /\ intel_call.by = "heuristic") =>
              last_abuse_fail = intel_call.at
        /\ ~abuse_key => ~intel_call.issued

\* A reputation was asked for 4.9 s after a failed lookup, with a key
\* configured: no request was sent.
C17_Witness ==
    /\ abuse_key
    /\ intel_call.pre_fail > 0
    /\ intel_call.at - intel_call.pre_fail = 4900
    /\ intel_call.by = "heuristic"
    /\ ~intel_call.issued

\* C20: an event enqueued with blocked = true names an address that is in
\* the firewall's blocked set at that moment.
C20_BlockedFlagConsistent ==
    (tri_done.kind = "triaged" /\ tri_done.event.blocked) =>
        tri_done.event.external_ip \in blocked_ips

\* C15: when block and unblock calls for different addresses run on separate
\* threads, then once every call has returned the persisted record holds
\* exactly the in-memory blocked set.
C15_ConcurrentRecordMatchesSet ==
    (\A t \in FwThreads : fwt[t].pc = "idle") =>
        LoadBlockedIps(record_file) = blocked_ips

\* C14: drift scans are mutually exclusive: at most one thread is inside the
\* scan-and-compare section of detect_drift, the thread that holds the lock,
\* and the lists of the event a thread is about to emit come from the one
\* snapshot it took inside the section.
C14_ScansExclusive ==
    /\ Cardinality({t \in DdThreads : dd[t].pc \in {"scan", "cmp1", "cmp2", "emit"}}) <= 1
    /\ \A t \in DdThreads :
          /\ dd[t].pc \in {"scan", "cmp1", "cmp2", "emit"} => scan_lock = t
          /\ dd[t].pc = "emit" =>
                /\ SeqSet(dd[t].removed) \cap DictKeys(dd[t].current) = {}
                /\ SeqSet(dd[t].modified) \subseteq DictKeys(dd[t].current)
                /\ SeqSet(dd[t].added) \subseteq DictKeys(dd[t].current)

\* A forced scan waits for the lock while a scheduled scan is about to emit
\* an event.
C14_Witness ==
    /\ dd["forced"].pc = "call"
    /\ \E t \in LoopThreads : dd[t].pc = "emit" /\ dd[t].added # <<>>

\* C19: the background loop observes the stop signal only between iterations:
\* it never leaves a scan midway, it exits only from its sleep and only when
\* running is false, after stop_monitoring it begins at most one further
\* detect_drift, and unless monitoring is started again it terminates.
C19_CooperativeStop ==
    /\ [][ \A t \in LoopThreads :
             /\ (dd[t].pc \in {"scan", "cmp1", "cmp2", "emit"} /\ dd'[t].pc # dd[t].pc) =>
                   dd'[t].pc \in {"cmp1", "cmp2", "emit", "sleep"}
             /\ (dd'[t].pc = "exited" /\ dd[t].pc # "exited") =>
                   (dd[t].pc = "sleep" /\ ~running)
             /\ dd'[t].late <= 1 ]_vars
    /\ ~running ~> (running \/ \A t \in LoopThreads : dd[t].pc \in {"idle", "exited", "killed"})

\* what the request in progress has taken from the queue of route r
Taken(r) == IF poll.route = r THEN poll.data ELSE <<>>

\* C13: each event put on a queue is returned by exactly one poll and removed
\* by it, in the order of the puts, while the producers keep putting events
\* during a poll: what was returned, then what the poll in progress holds,
\* then what is still queued is always exactly what was put, and as the polls
\* keep coming everything put has again and again been returned.
C13_ExactlyOnceInOrder ==
    /\ [](/\ qlog.delivered_t \o Taken("traffic") \o traffic_data_queue = qlog.produced_t
          /\ qlog.delivered_i \o Taken("integrity") \o integrity_queue = qlog.produced_i)
    /\ []<>(qlog.delivered_t = qlog.produced_t)
    /\ []<>(qlog.delivered_i = qlog.produced_i)

\* A poll of /integrity that has already taken an event finds another one,
\* different from it, put on the queue meanwhile, after an earlier poll has
\* returned the traffic event.
C13_Witness ==
    /\ poll.pc = "get" /\ poll.route = "integrity"
    /\ poll.data # <<>> /\ integrity_queue # <<>>
    /\ Head(integrity_queue) # poll.data[Len(poll.data)]
    /\ qlog.delivered_t # <<>>

\* C18: a record that is missing or cannot be parsed yields the empty state
\* and the operations that follow proceed from it: the firewall controller
\* constructed over such a file has an empty blocked set, its first block_ip
\* that gets as far as recording leaves exactly that address in the set and
\* saves it, and its first unblock_ip finds nothing to remove; the drift
\* detector constructed over such a file has an empty baseline, its first scan
\* reports every file found as added and none as modified or removed, and
\* its first start_monitoring or create_baseline takes the files found as the
\* baseline (or keeps it empty when the baseline cannot be written).
C18_BadRecordGivesEmptyState ==
    /\ (fw_call.seq = 0 /\ record_file \in BadRecordFiles) => blocked_ips = {}
    /\ (fw_call.seq = 1 /\ fw_call.pre_file \in BadRecordFiles) =>
          /\ fw_call.pre_blocked = {}
          /\ fw_call.op = "unblock" =>
                blocked_ips = {} /\ record_file = fw_call.pre_file /\ ~fw_call.persisted
          /\ (fw_call.op = "block" /\ fw_call.persisted) =>
                /\ blocked_ips = {fw_call.ip}
                /\ \E so \in SaveOutcomes :
                      record_file = SaveBlockedIps({fw_call.ip}, fw_call.pre_file, so)
    /\ (drift_call.op = "none" /\ baseline_file \in BadRecordFiles) => baseline = <<>>
    /\ (ndrift = 1 /\ drift_call.op # "none" /\ drift_call.pre_file \in BadRecordFiles) =>
          /\ drift_call.pre_baseline = <<>>
          /\ drift_call.op \in {"force_scan", "detect_drift"} =>
                /\ drift_call.result.modified = <<>>
                /\ drift_call.result.removed = <<>>
                /\ drift_call.result.added = KeysOf(drift_call.current)
                /\ drift_call.result.returned = "event" <=> drift_call.current # <<>>
                /\ baseline = <<>>
          /\ drift_call.op \in {"start_monitoring", "create_baseline"} =>
                baseline \in {<<>>, ScanCurrent}

\* Both components were constructed over an unusable record; the first
\* block_ip recorded its address and the first scan reported added files.
C18_Witness ==
    /\ fw_call.seq = 1 /\ fw_call.pre_file = CorruptFile
    /\ fw_call.op = "block" /\ fw_call.persisted
    /\ ndrift = 1 /\ drift_call.op = "force_scan" /\ drift_call.pre_file = NoFile
    /\ drift_call.result.returned = "event"

\* C22: for any sequence of start_monitoring / stop_monitoring calls at most
\* one background loop is alive at any time: a loop that was started has
\* terminated before another one runs beside it.
C22_SingleLoop ==
    Cardinality({t \in LoopThreads : dd[t].pc \notin {"idle", "exited", "killed"}}) <= 1

\* C23: every detect_drift compares its snapshot with one baseline mapping in
\* both passes: the three lists of the event a thread is about to emit are
\* those of its snapshot against the mapping of its first pass, or those
\* against the mapping that replaced it.
C23_OneBaselinePerScan ==
    \A t \in DdThreads :
       dd[t].pc = "emit" =>
          \E b \in {dd[t].base, baseline} :
             /\ dd[t].modified = Modified(b, dd[t].current)
             /\ dd[t].removed = Removed(b, dd[t].current)
             /\ dd[t].added = Added(b, dd[t].current)

\* C21: the first score of an address not seen before is at least 0.9
\* whatever the initial average interval and the random factors, so the
\* first flow triaged for a non-private address has a combined score of at
\* least 0.6, its event says blocked and the address is in the blocked set.
C21_FirstSightBlocked ==
    (tri_done.kind = "triaged" /\ ncalls[tri_done.external] = 1) =>
        /\ tri_done.behavior >= 90
        /\ tri_done.event.score >= BlockThreshold
        /\ tri_done.event.blocked
        /\ tri_done.external \in blocked_ips

====
